---- MODULE Spec2Model ----
(***************************************************************************)
(* VoiceGuard: acoustic feature extraction and heuristic scoring engine    *)
(* (model.py) and the request handler that calls it (main.py).             *)
(*                                                                         *)
(* Real numbers are fixed-point integers:                                  *)
(*   pitch_std                        tenths of a Hz                       *)
(*   jitter, shimmer, spectral_flatness, silence_ratio   thousandths       *)
(*   hnr                              tenths of a dB (or NaN)              *)
(*   score                            hundredths                           *)
(*   ai_probability                   thousandths                          *)
(*   confidence (after round(.,2))    hundredths                           *)
(* Every delta of predict is a multiple of 0.05, so score, 0.8*score and   *)
(* the probability are exact in these units.                               *)
(* The double-precision sums of the same deltas give the same label and    *)
(* the same two-decimal confidence in each of the 96 combinations of rule  *)
(* outcomes, so the fixed-point score decides what the float score does.   *)
(***************************************************************************)
EXTENDS Integers, Sequences, FiniteSets, TLC

VARIABLES
    mode,        \* which part of the program this behaviour exercises
    features,    \* predict: the FeatureSet returned by extract_features
    result,      \* predict: the value predict returns (plus its locals)
    autocorr,    \* calculate_hnr: librosa.autocorrelate(y), lags 0..len-1 at indices 1..len
    hnrOut,      \* calculate_hnr: the returned value and the locals that led to it
    xpc,         \* extract_features: position in the function body
    xf0,         \* extract_features: the local f0 ("unset", "empty" or "track")
    xfeat,       \* extract_features: the feature locals assigned so far (name -> value)
    xfailed,     \* extract_features: the operations whose library call raised
    rpc,         \* detect_voice: per request, position of the coroutine
    loop,        \* detect_voice: what the event-loop thread is executing
    response     \* detect_voice: per request, the HTTP status sent (0 = none yet)

vars == <<mode, features, result, autocorr, hnrOut, xpc, xf0, xfeat, xfailed, rpc, loop, response>>

(***************************************************************************)
(* Floating point: the only non-finite value the engine can produce is the *)
(* NaN of log10 of a negative number.  Every ordered comparison with NaN   *)
(* is false.                                                               *)
(***************************************************************************)
NaN == -999999

FLt(a, b) == a # NaN /\ b # NaN /\ a < b
FGt(a, b) == a # NaN /\ b # NaN /\ a > b
FGe(a, b) == a # NaN /\ b # NaN /\ a >= b

(***************************************************************************)
(* Bounds of the model.                                                    *)
(***************************************************************************)
Spread == 1          \* feature values are taken within Spread units of each threshold
MaxRequests == 3     \* concurrent requests to the server
Amp == 2             \* autocorrelation samples range over -Amp..Amp
HeadLen == 4         \* freely chosen leading autocorrelation samples (lags 0..HeadLen-1)

(***************************************************************************)
(* VoiceClassifier.__init__ thresholds and the literals of predict.        *)
(***************************************************************************)
PITCH_STD_THRESHOLD == 200
JITTER_THRESHOLD == 30
SHIMMER_THRESHOLD == 50
HNR_THRESHOLD == 150
HNR_HIGH == 200
HNR_LOW == 100
FLATNESS_LIMIT == 10
SILENCE_LIMIT == 20
HNR_DEFAULT == 100
HNR_CLIP_MAX == 400
NoArg == -1

Around(t) == (t - Spread)..(t + Spread)

HnrValues == {0, HNR_CLIP_MAX, NaN} \cup Around(HNR_LOW) \cup Around(HNR_HIGH)

FeatureSets ==
    [pitch_std : Around(PITCH_STD_THRESHOLD) \cup {0},
     jitter : Around(JITTER_THRESHOLD) \cup {0},
     shimmer : Around(SHIMMER_THRESHOLD) \cup {0},
     hnr : HnrValues,
     spectral_flatness : Around(FLATNESS_LIMIT),
     silence_ratio : Around(SILENCE_LIMIT)]

Note(t, a) == [text |-> t, arg |-> a]

\* First n elements of s: the slice s[:n].
Take(s, n) == SubSeq(s, 1, IF Len(s) < n THEN Len(s) ELSE n)

\* sep.join(items), kept as its separator and its items, after a fixed prefix.
Join(prefix, sep, items) == [prefix |-> prefix, sep |-> sep, items |-> items]
Literal(t) == Join("", "", <<Note(t, NoArg)>>)

Clamp(x, lo, hi) == IF x < lo THEN lo ELSE IF x > hi THEN hi ELSE x

\* round(confidence, 2): thousandths to hundredths, ties to even.
Round2(m) ==
    LET q == m \div 10
        r == m % 10
    IN IF r < 5 THEN q
       ELSE IF r > 5 THEN q + 1
       ELSE IF q % 2 = 0 THEN q ELSE q + 1

(***************************************************************************)
(* predict, lines 173-262, one block of the function per definition.       *)
(* Each block maps the accumulator acc = [score, explanations] to the      *)
(* accumulator after the block.                                            *)
(***************************************************************************)
PitchCheck(f, acc) ==
    IF FLt(f.pitch_std, PITCH_STD_THRESHOLD)
    THEN [score |-> acc.score + 25,
          explanations |-> Append(acc.explanations, Note("Monotone pitch pattern", f.pitch_std))]
    ELSE [score |-> acc.score - 15,
          explanations |-> Append(acc.explanations, Note("Natural pitch variation", f.pitch_std))]

\* JitterCheck with the else branch of line 196 dropped
JitterCheckNoPenalty(f, acc) ==
    IF FLt(f.jitter, JITTER_THRESHOLD)
    THEN [score |-> acc.score + 25,
          explanations |-> Append(acc.explanations, Note("Perfect pitch timing", f.jitter))]
    ELSE acc

JitterCheck(f, acc) ==
    IF FLt(f.jitter, JITTER_THRESHOLD)
    THEN [score |-> acc.score + 25,
          explanations |-> Append(acc.explanations, Note("Perfect pitch timing", f.jitter))]
    ELSE [score |-> acc.score - 15, explanations |-> acc.explanations]

ShimmerCheck(f, acc) ==
    IF FLt(f.shimmer, SHIMMER_THRESHOLD)
    THEN [score |-> acc.score + 20,
          explanations |-> Append(acc.explanations, Note("Uniform amplitude", f.shimmer))]
    ELSE [score |-> acc.score - 10, explanations |-> acc.explanations]

\* HnrCheck with the low branch testing self.HNR_THRESHOLD instead of 10.0
HnrCheckThreshold(f, acc) ==
    IF FGt(f.hnr, HNR_HIGH)
    THEN [score |-> acc.score + 15,
          explanations |-> Append(acc.explanations, Note("Synthetic clarity", f.hnr))]
    ELSE IF FLt(f.hnr, HNR_THRESHOLD)
    THEN [score |-> acc.score + 10,
          explanations |-> Append(acc.explanations, Note("Unusual noise pattern", f.hnr))]
    ELSE acc

HnrCheck(f, acc) ==
    IF FGt(f.hnr, HNR_HIGH)
    THEN [score |-> acc.score + 15,
          explanations |-> Append(acc.explanations, Note("Synthetic clarity", f.hnr))]
    ELSE IF FLt(f.hnr, HNR_LOW)
    THEN [score |-> acc.score + 10,
          explanations |-> Append(acc.explanations, Note("Unusual noise pattern", f.hnr))]
    ELSE acc

FlatnessCheck(f, acc) ==
    IF FLt(f.spectral_flatness, FLATNESS_LIMIT)
    THEN [score |-> acc.score + 10,
          explanations |-> Append(acc.explanations, Note("Overly tonal spectrum", NoArg))]
    ELSE acc

SilenceCheck(f, acc) ==
    IF FLt(f.silence_ratio, SILENCE_LIMIT)
    THEN [score |-> acc.score + 5,
          explanations |-> Append(acc.explanations, Note("Lack of natural pauses", NoArg))]
    ELSE acc

Accumulate(f) ==
    SilenceCheck(f, FlatnessCheck(f, HnrCheck(f, ShimmerCheck(f, JitterCheck(f,
        PitchCheck(f, [score |-> 0, explanations |-> <<>>]))))))

\* AiProbability without the clamp of line 229
AiProbabilityUnclamped(score) == 500 + score * 8

\* ai_probability = max(0.01, min(0.99, 0.5 + score * 0.8)), in thousandths
AiProbability(score) == Clamp(500 + score * 8, 10, 990)

\* IsAi with >= for > on line 232
IsAiInclusive(p) == p >= 500

IsAi(p) == p > 500

\* HumanTraits with > for >= on lines 247-251
HumanTraitsStrict(f) ==
    (IF FGt(f.pitch_std, PITCH_STD_THRESHOLD) THEN <<Note("dynamic intonation", NoArg)>> ELSE <<>>)
    \o (IF FGt(f.jitter, JITTER_THRESHOLD) THEN <<Note("natural pitch variation", NoArg)>> ELSE <<>>)
    \o (IF FGt(f.shimmer, SHIMMER_THRESHOLD) THEN <<Note("organic amplitude changes", NoArg)>> ELSE <<>>)

HumanTraits(f) ==
    (IF FGe(f.pitch_std, PITCH_STD_THRESHOLD) THEN <<Note("dynamic intonation", NoArg)>> ELSE <<>>)
    \o (IF FGe(f.jitter, JITTER_THRESHOLD) THEN <<Note("natural pitch variation", NoArg)>> ELSE <<>>)
    \o (IF FGe(f.shimmer, SHIMMER_THRESHOLD) THEN <<Note("organic amplitude changes", NoArg)>> ELSE <<>>)

AiExplanation(explanations) ==
    IF Len(explanations) > 0
    THEN Join("", " | ", Take(explanations, 3))
    ELSE Literal("Multiple synthetic audio patterns detected")

HumanExplanation(f) ==
    IF HumanTraits(f) # <<>>
    THEN Join("Natural speech characteristics: ", ", ", HumanTraits(f))
    ELSE Literal("Natural pitch variation and prosody detected")

predict(f) ==
    LET acc == Accumulate(f)
        p == AiProbability(acc.score)
    IN IF IsAi(p)
       THEN [classification |-> "AI_GENERATED",
             confidence |-> Round2(p),
             explanation |-> AiExplanation(acc.explanations),
             score |-> acc.score, ai_probability |-> p,
             explanations |-> acc.explanations]
       ELSE [classification |-> "HUMAN",
             confidence |-> Round2(1000 - p),
             explanation |-> HumanExplanation(f),
             score |-> acc.score, ai_probability |-> p,
             explanations |-> acc.explanations]

NoResult == [classification |-> "none"]

NoFeatures == [pitch_std |-> 0, jitter |-> 0, shimmer |-> 0, hnr |-> 0,
               spectral_flatness |-> 0, silence_ratio |-> 0]

(***************************************************************************)
(* Idle values of the parts a behaviour does not exercise.                 *)
(***************************************************************************)
Requests == 1..MaxRequests

IdlePredict == features = NoFeatures /\ result = NoResult
IdleHnr == autocorr = <<>> /\ hnrOut = [path |-> "none"]
IdleExtract == xpc = "idle" /\ xf0 = "unset" /\ xfeat = <<>> /\ xfailed = {}
IdleServer ==
    /\ rpc = [r \in Requests |-> "idle"]
    /\ loop = 0
    /\ response = [r \in Requests |-> 0]

(***************************************************************************)
(* predict applied to every FeatureSet of the bounded domain.              *)
(***************************************************************************)
InitPredict ==
    /\ mode = "predict"
    /\ features \in FeatureSets
    /\ result = NoResult
    /\ IdleHnr /\ IdleExtract /\ IdleServer

Predict ==
    /\ mode = "predict"
    /\ result = NoResult
    /\ result' = predict(features)
    /\ UNCHANGED <<mode, features, autocorr, hnrOut, xpc, xf0, xfeat, xfailed, rpc, loop, response>>

NextPredict == Predict

SpecPredict == InitPredict /\ [][NextPredict]_vars

Predicted == mode = "predict" /\ result # NoResult

(***************************************************************************)
(* C1: for every FeatureSet, ai_probability = clamp(0.5 + 0.8*score, 0.01, *)
(* 0.99) where score is the sum of six independently evaluated deltas:     *)
(* +0.25/-0.15 on pitch_std < 20.0, +0.25/-0.15 on jitter < 0.03,          *)
(* +0.20/-0.10 on shimmer < 0.05, +0.15 if hnr > 20.0, +0.10 if hnr < 10.0,*)
(* +0.10 if spectral_flatness < 0.01, +0.05 if silence_ratio < 0.02.       *)
(***************************************************************************)
C1_Delta(f) ==
    (IF FLt(f.pitch_std, 200) THEN 25 ELSE -15)
    + (IF FLt(f.jitter, 30) THEN 25 ELSE -15)
    + (IF FLt(f.shimmer, 50) THEN 20 ELSE -10)
    + (IF FGt(f.hnr, 200) THEN 15 ELSE 0)
    + (IF FLt(f.hnr, 100) THEN 10 ELSE 0)
    + (IF FLt(f.spectral_flatness, 10) THEN 10 ELSE 0)
    + (IF FLt(f.silence_ratio, 20) THEN 5 ELSE 0)

C1_ScoreFormula ==
    Predicted =>
        /\ result.score = C1_Delta(features)
        /\ result.ai_probability
             = (LET raw == 500 + 8 * C1_Delta(features)
                IN IF raw < 10 THEN 10 ELSE IF raw > 990 THEN 990 ELSE raw)

\* a low-HNR FeatureSet whose other five rules all add their positive delta
C1_Witness ==
    /\ Predicted
    /\ FLt(features.hnr, HNR_LOW)
    /\ result.score = 95
    /\ result.ai_probability = 990

(***************************************************************************)
(* C2: for every FeatureSet the returned confidence (ai_probability for    *)
(* AI_GENERATED, 1 - ai_probability for HUMAN, rounded to two decimals)    *)
(* lies in [0.01, 0.99].                                                   *)
(***************************************************************************)
C2_ConfidenceBounds ==
    Predicted =>
        /\ 1 <= result.confidence /\ result.confidence <= 99
        /\ result.classification = "AI_GENERATED" => result.confidence * 10 = result.ai_probability
        /\ result.classification = "HUMAN" => result.confidence * 10 = 1000 - result.ai_probability

\* every rule fires positively: 0.5 + 0.8 * 1.00 = 1.30 is clamped to 0.99
C2_Witness ==
    /\ Predicted
    /\ result.score = 100
    /\ result.confidence = 99

(***************************************************************************)
(* C3: the label is AI_GENERATED iff the clamped ai_probability is         *)
(* strictly greater than 0.5; otherwise, also at exactly 0.5, it is HUMAN; *)
(* no third label exists.                                                  *)
(***************************************************************************)
C3_LabelConsistency ==
    Predicted =>
        /\ result.classification \in {"AI_GENERATED", "HUMAN"}
        /\ result.classification = "AI_GENERATED" <=> result.ai_probability > 500
        /\ result.ai_probability = 500 => result.classification = "HUMAN"

\* score 0 (+0.25 -0.15 -0.10): probability exactly 0.5, labelled HUMAN
C3_Witness ==
    /\ Predicted
    /\ result.score = 0
    /\ result.ai_probability = 500
    /\ result.classification = "HUMAN"

(***************************************************************************)
(* C4: a FeatureSet with pitch_std >= 20.0, jitter >= 0.03 and             *)
(* shimmer >= 0.05 is classified HUMAN whatever hnr, spectral_flatness and *)
(* silence_ratio are.                                                      *)
(***************************************************************************)
C4_RandomizedIsHuman ==
    (/\ Predicted
     /\ features.pitch_std >= 200
     /\ features.jitter >= 30
     /\ features.shimmer >= 50)
    => result.classification = "HUMAN"

\* the three negative deltas against every positive contribution of rules 4-6
C4_Witness ==
    /\ Predicted
    /\ features.pitch_std >= 200 /\ features.jitter >= 30 /\ features.shimmer >= 50
    /\ FGt(features.hnr, 200) /\ features.spectral_flatness < 10 /\ features.silence_ratio < 20
    /\ result.score = -10
    /\ result.classification = "HUMAN"

(***************************************************************************)
(* C5: an AI_GENERATED explanation is the first three notes emitted by     *)
(* positive-delta rules, in rule order, joined with " | "; the "natural    *)
(* pitch variation" note of the negative branch of rule 1 never appears.   *)
(***************************************************************************)
C5_PositiveNotes(f) ==
    (IF FLt(f.pitch_std, 200) THEN <<Note("Monotone pitch pattern", f.pitch_std)>> ELSE <<>>)
    \o (IF FLt(f.jitter, 30) THEN <<Note("Perfect pitch timing", f.jitter)>> ELSE <<>>)
    \o (IF FLt(f.shimmer, 50) THEN <<Note("Uniform amplitude", f.shimmer)>> ELSE <<>>)
    \o (IF FGt(f.hnr, 200) THEN <<Note("Synthetic clarity", f.hnr)>> ELSE <<>>)
    \o (IF FLt(f.hnr, 100) THEN <<Note("Unusual noise pattern", f.hnr)>> ELSE <<>>)
    \o (IF FLt(f.spectral_flatness, 10) THEN <<Note("Overly tonal spectrum", NoArg)>> ELSE <<>>)
    \o (IF FLt(f.silence_ratio, 20) THEN <<Note("Lack of natural pauses", NoArg)>> ELSE <<>>)

C5_AiExplanationPositiveOnly ==
    (Predicted /\ result.classification = "AI_GENERATED") =>
        /\ result.explanation.sep = " | "
        /\ result.explanation.items = Take(C5_PositiveNotes(features), 3)
        /\ \A i \in 1..Len(result.explanation.items) :
              result.explanation.items[i].text # "Natural pitch variation"

(***************************************************************************)
(* C10: neither generic fallback explanation is ever returned: an          *)
(* AI_GENERATED result has at least one accumulated note, and a HUMAN      *)
(* result lists at least one human trait.                                  *)
(***************************************************************************)
C10_NoFallback ==
    Predicted =>
        /\ result.explanation # Literal("Multiple synthetic audio patterns detected")
        /\ result.explanation # Literal("Natural pitch variation and prosody detected")
        /\ result.classification = "AI_GENERATED" => Len(result.explanations) >= 1
        /\ result.classification = "HUMAN" => Len(result.explanation.items) >= 1
        /\ (/\ features.pitch_std < 200 /\ features.jitter < 30 /\ features.shimmer < 50)
             => result.classification = "AI_GENERATED"

\* a HUMAN verdict at the decision boundary, explained by its two traits
C10_Witness ==
    /\ Predicted
    /\ result.classification = "HUMAN"
    /\ result.score = 0
    /\ result.explanation.prefix = "Natural speech characteristics: "
    /\ Len(result.explanation.items) = 2

(***************************************************************************)
(* calculate_hnr, lines 71-104.                                            *)
(*                                                                         *)
(* autocorr is the array librosa.autocorrelate(y) returns; lag k is        *)
(* autocorr[k + 1].  An autocorrelation has its largest magnitude at lag   *)
(* 0; apart from that its samples are inputs.  The modelled arrays have    *)
(* HeadLen free leading samples, then a constant fill, optionally with one *)
(* raised sample at the edge of the peak search; their lengths lie around  *)
(* the places where the code branches (the end of the peak search, the     *)
(* noise window running off the end of the array).                         *)
(*                                                                         *)
(* The returned decibel value is kept to whole dB (rounded down), in       *)
(* tenths of a dB like FeatureSet.hnr.                                     *)
(***************************************************************************)
SR == 22050
SEARCH_DIV == 50
NOISE_SPAN == 50

Abs(x) == IF x < 0 THEN -x ELSE x
Min(a, b) == IF a < b THEN a ELSE b

SearchLimit == SR \div SEARCH_DIV

Heads ==
    {h \in [1..HeadLen -> -Amp..Amp] : \A i \in 1..HeadLen : Abs(h[i]) <= h[1]}

ShortLens == (1..(HeadLen + 2)) \cup ((NOISE_SPAN + 1)..(NOISE_SPAN + HeadLen + 2))
LongLens == {SearchLimit + 4, SearchLimit + NOISE_SPAN + 4}
BumpLags == {SearchLimit - 1, SearchLimit}

MakeAutocorr(head, fill, len, bump) ==
    [i \in 1..len |->
        IF i <= HeadLen THEN head[i]
        ELSE IF i - 1 = bump THEN fill + 1
        ELSE fill]

\* long arrays keep a flat head: only the raised sample can be a peak
FlatHeads == {h \in Heads : \A i \in 1..HeadLen : h[i] = h[1]}

Fills == -1..1

IsAutocorrInput(ac) ==
    \/ \E h \in Heads, fill \in Fills, len \in ShortLens :
          /\ Abs(fill) <= h[1]
          /\ ac = MakeAutocorr(h, fill, len, 0)
    \/ \E h \in FlatHeads, fill \in Fills, len \in LongLens, b \in {0} \cup BumpLags :
          /\ Abs(fill) <= h[1]
          /\ b # 0 => fill + 1 <= h[1]
          /\ ac = MakeAutocorr(h, fill, len, b)

\* autocorr[k], zero-based as in the code
At(ac, k) == ac[k + 1]

\* autocorr[a:b], zero-based, b exclusive and cut at the end of the array
Slice(ac, a, b) == SubSeq(ac, a + 1, Min(b, Len(ac)))

RECURSIVE SumSeq(_)
SumSeq(s) == IF s = <<>> THEN 0 ELSE Head(s) + SumSeq(Tail(s))

\* np.mean, as the exact fraction num/den
Mean(s) == [num |-> SumSeq(s), den |-> Len(s)]

\* lines 82-86: the lags of the local maxima within the search range
Peaks(ac) ==
    {i \in 1..(Min(Len(ac), SearchLimit) - 1) :
        /\ i > 0 /\ i < Len(ac) - 1
        /\ At(ac, i) > At(ac, i - 1)
        /\ At(ac, i) > At(ac, i + 1)}

\* line 92: max(peaks, key=value) keeps the first of equal maxima
PeakIdx(ac) ==
    CHOOSE i \in Peaks(ac) :
        /\ \A j \in Peaks(ac) : At(ac, j) <= At(ac, i)
        /\ \A j \in Peaks(ac) : At(ac, j) = At(ac, i) => i <= j

\* NoisePower with the slice of line 96 ending one sample later
NoisePowerInclusive(ac, peak_idx) ==
    IF peak_idx + NOISE_SPAN < Len(ac)
    THEN Mean(Slice(ac, peak_idx + 1, peak_idx + NOISE_SPAN + 1))
    ELSE Mean(Slice(ac, peak_idx + 1, Len(ac)))

\* line 96
NoisePower(ac, peak_idx) ==
    IF peak_idx + NOISE_SPAN < Len(ac)
    THEN Mean(Slice(ac, peak_idx + 1, peak_idx + NOISE_SPAN))
    ELSE Mean(Slice(ac, peak_idx + 1, Len(ac)))

\* 1000 * 10^(j/10) for j = 0..9
Pow10Tenths == <<1000, 1259, 1585, 1995, 2512, 3162, 3981, 5012, 6310, 7943>>

RECURSIVE Pow10(_)
Pow10(n) == IF n = 0 THEN 1 ELSE 10 * Pow10(n - 1)

\* num/den >= 10^(k/10), for num, den > 0
AtLeastDb(num, den, k) ==
    num * 1000 >= den * Pow10(k \div 10) * Pow10Tenths[(k % 10) + 1]

\* np.clip(10 * np.log10(num/den), 0, 40) on a float ratio num/den, den > 0:
\* a negative ratio gives NaN (which clip passes through), zero gives -inf
\* (clipped to 0)
ClippedDb(num, den) ==
    IF num < 0 THEN NaN
    ELSE IF num = 0 THEN 0
    ELSE LET ks == {k \in 0..40 : AtLeastDb(num, den, k)}
         IN IF ks = {} THEN 0
            ELSE 10 * (CHOOSE k \in ks : \A j \in ks : j <= k)

\* lines 88-102, after autocorrelate returned
calculate_hnr(ac) ==
    IF Peaks(ac) = {}
    THEN [path |-> "no_peak", value |-> HNR_DEFAULT, peak_idx |-> 0, peak_val |-> 0,
          noise |-> [num |-> 0, den |-> 1]]
    ELSE LET peak_idx == PeakIdx(ac)
             peak_val == At(ac, peak_idx)
             noise == NoisePower(ac, peak_idx)
         IN IF noise.num > 0
            THEN [path |-> "ratio",
                  value |-> ClippedDb(peak_val * noise.den, noise.num),
                  peak_idx |-> peak_idx, peak_val |-> peak_val, noise |-> noise]
            ELSE [path |-> "no_noise", value |-> HNR_DEFAULT,
                  peak_idx |-> peak_idx, peak_val |-> peak_val, noise |-> noise]

InitHnr ==
    /\ mode = "hnr"
    /\ IsAutocorrInput(autocorr)
    /\ hnrOut = [path |-> "none"]
    /\ IdlePredict /\ IdleExtract /\ IdleServer

\* the try block runs to a return statement
CalculateHnr ==
    /\ mode = "hnr"
    /\ hnrOut.path = "none"
    /\ hnrOut' = calculate_hnr(autocorr)
    /\ UNCHANGED <<mode, features, result, autocorr, xpc, xf0, xfeat, xfailed, rpc, loop, response>>

\* something inside the try block raises: the bare except returns 10.0
CalculateHnrExcept ==
    /\ mode = "hnr"
    /\ hnrOut.path = "none"
    /\ hnrOut' = [path |-> "exception", value |-> HNR_DEFAULT, peak_idx |-> 0, peak_val |-> 0,
                  noise |-> [num |-> 0, den |-> 1]]
    /\ UNCHANGED <<mode, features, result, autocorr, xpc, xf0, xfeat, xfailed, rpc, loop, response>>

NextHnr == CalculateHnr \/ CalculateHnrExcept

SpecHnr == InitHnr /\ [][NextHnr]_vars

HnrReturned == mode = "hnr" /\ hnrOut.path # "none"

(***************************************************************************)
(* C8: on every path of calculate_hnr (no local maximum, non-positive      *)
(* noise power, non-positive peak value, exception, clipped ratio) the     *)
(* returned HNR is a defined number in [0, 40] dB.                         *)
(***************************************************************************)
C8_HnrInRange ==
    HnrReturned =>
        /\ hnrOut.value # NaN
        /\ 0 <= hnrOut.value /\ hnrOut.value <= 400

(***************************************************************************)
(* C9: with the strongest peak at lag p, the noise power is the mean of    *)
(* the 50 samples at lags p+1 .. p+50 when at least 50 samples follow the  *)
(* peak, and the mean of all samples after the peak otherwise.             *)
(***************************************************************************)
RECURSIVE C9_SumLags(_, _, _)
C9_SumLags(ac, from, to) ==
    IF from > to THEN 0 ELSE ac[from + 1] + C9_SumLags(ac, from + 1, to)

C9_Following == Len(autocorr) - 1 - hnrOut.peak_idx

C9_NoiseIsMeanOver(first, last) ==
    hnrOut.noise.num * (last - first + 1) = C9_SumLags(autocorr, first, last) * hnrOut.noise.den

C9_NoiseWindow50 ==
    (HnrReturned /\ hnrOut.path \in {"ratio", "no_noise"}) =>
        IF C9_Following >= 50
        THEN C9_NoiseIsMeanOver(hnrOut.peak_idx + 1, hnrOut.peak_idx + 50)
        ELSE C9_NoiseIsMeanOver(hnrOut.peak_idx + 1, Len(autocorr) - 1)

(***************************************************************************)
(* C9 as amended: with the strongest peak at lag p, the noise power is the *)
(* mean of the 49 samples at lags p+1 .. p+49 when at least 50 samples     *)
(* follow the peak, and the mean of all samples after the peak when fewer  *)
(* than 50 remain.                                                         *)
(***************************************************************************)
C9_NoiseWindow49 ==
    (HnrReturned /\ hnrOut.path \in {"ratio", "no_noise"}) =>
        /\ hnrOut.peak_idx \in Peaks(autocorr)
        /\ \A j \in Peaks(autocorr) : At(autocorr, j) <= hnrOut.peak_val
        /\ IF C9_Following >= 50
           THEN /\ hnrOut.noise.den = 49
                /\ C9_NoiseIsMeanOver(hnrOut.peak_idx + 1, hnrOut.peak_idx + 49)
           ELSE /\ hnrOut.noise.den = C9_Following
                /\ C9_NoiseIsMeanOver(hnrOut.peak_idx + 1, Len(autocorr) - 1)

\* exactly 50 samples follow the peak and the 50th differs from the mean of the first 49
C9_Witness ==
    /\ HnrReturned
    /\ hnrOut.path = "ratio"
    /\ C9_Following = 50
    /\ hnrOut.noise.den = 49
    /\ ~ C9_NoiseIsMeanOver(hnrOut.peak_idx + 1, hnrOut.peak_idx + 50)

(***************************************************************************)
(* extract_features, lines 106-164, one action per statement group.  The   *)
(* library calls (numpy, librosa) either return or raise; what a call      *)
(* returns is an input, drawn from a few representative values.            *)
(***************************************************************************)
PitchStdValues == {150, 250}
PitchMeanValues == {1200}
RatioValues == {10, 40}
ExtractHnrValues == {0, HNR_DEFAULT, HNR_CLIP_MAX, NaN}

FeatureNames ==
    {"pitch_std", "pitch_mean", "jitter", "shimmer", "hnr", "spectral_flatness", "silence_ratio"}

\* assignment to a local of extract_features
Assign(locals, name, value) ==
    [n \in DOMAIN locals \cup {name} |-> IF n = name THEN value ELSE locals[n]]

InitExtract ==
    /\ mode = "extract"
    /\ xpc = "preemphasis"
    /\ xf0 = "unset"
    /\ xfeat = <<>>
    /\ xfailed = {}
    /\ IdlePredict /\ IdleHnr /\ IdleServer

ExtractFrame == <<mode, features, result, autocorr, hnrOut, rpc, loop, response>>

\* line 110: y_proc = self.preemphasis(y), outside any try
preemphasis ==
    /\ mode = "extract" /\ xpc = "preemphasis"
    /\ \/ /\ xpc' = "pitch"
          /\ UNCHANGED xfailed
       \/ /\ xpc' = "raised"
          /\ xfailed' = xfailed \cup {"preemphasis"}
    /\ UNCHANGED <<xf0, xfeat>>
    /\ UNCHANGED ExtractFrame

\* lines 114-136: pyin inside try/except Exception
PitchTracking ==
    /\ mode = "extract" /\ xpc = "pitch"
    /\ \/ \* no voiced frame
          /\ xf0' = "unvoiced"
          /\ xfeat' = Assign(Assign(xfeat, "pitch_std", 0), "pitch_mean", 0)
          /\ UNCHANGED xfailed
       \/ \* a single voiced frame: its standard deviation is 0
          \E mean \in PitchMeanValues :
          /\ xf0' = "voiced1"
          /\ xfeat' = Assign(Assign(xfeat, "pitch_std", 0), "pitch_mean", mean)
          /\ UNCHANGED xfailed
       \/ \E sd \in PitchStdValues, mean \in PitchMeanValues :
          /\ xf0' = "voiced"
          /\ xfeat' = Assign(Assign(xfeat, "pitch_std", sd), "pitch_mean", mean)
          /\ UNCHANGED xfailed
       \/ \* pyin raises: lines 132-136
          /\ xf0' = "empty"
          /\ xfeat' = Assign(Assign(xfeat, "pitch_std", 0), "pitch_mean", 0)
          /\ xfailed' = xfailed \cup {"pitch"}
    /\ xpc' = "jitter"
    /\ UNCHANGED ExtractFrame

\* line 139 and calculate_jitter, lines 26-48
Jitter ==
    /\ mode = "extract" /\ xpc = "jitter"
    /\ \/ \* fewer than two voiced values: line 37
          /\ xf0 \in {"empty", "unvoiced", "voiced1"}
          /\ xfeat' = Assign(xfeat, "jitter", 0)
          /\ UNCHANGED xfailed
       \/ \E j \in RatioValues :
          /\ xf0 = "voiced"
          /\ xfeat' = Assign(xfeat, "jitter", j)
          /\ UNCHANGED xfailed
       \/ \* an exception inside the try: line 48
          /\ xfeat' = Assign(xfeat, "jitter", 0)
          /\ xfailed' = xfailed \cup {"jitter"}
    /\ xpc' = "shimmer"
    /\ UNCHANGED xf0
    /\ UNCHANGED ExtractFrame

\* line 142 and calculate_shimmer, lines 50-69
Shimmer ==
    /\ mode = "extract" /\ xpc = "shimmer"
    /\ \/ \E v \in RatioValues \cup {0} :
          /\ xfeat' = Assign(xfeat, "shimmer", v)
          /\ UNCHANGED xfailed
       \/ \* an exception inside the try: line 69
          /\ xfeat' = Assign(xfeat, "shimmer", 0)
          /\ xfailed' = xfailed \cup {"shimmer"}
    /\ xpc' = "hnr"
    /\ UNCHANGED xf0
    /\ UNCHANGED ExtractFrame

\* line 145 and calculate_hnr, lines 71-104
Hnr ==
    /\ mode = "extract" /\ xpc = "hnr"
    /\ \/ \E v \in ExtractHnrValues :
          /\ xfeat' = Assign(xfeat, "hnr", v)
          /\ UNCHANGED xfailed
       \/ \* an exception inside the try: line 104
          /\ xfeat' = Assign(xfeat, "hnr", HNR_DEFAULT)
          /\ xfailed' = xfailed \cup {"hnr"}
    /\ xpc' = "flatness"
    /\ UNCHANGED xf0
    /\ UNCHANGED ExtractFrame

\* line 148: np.mean(librosa.feature.spectral_flatness(y=y)), outside any try
SpectralFlatness ==
    /\ mode = "extract" /\ xpc = "flatness"
    /\ \/ \E v \in RatioValues :
          /\ xfeat' = Assign(xfeat, "spectral_flatness", v)
          /\ xpc' = "silence"
          /\ UNCHANGED xfailed
       \/ /\ xpc' = "raised"
          /\ xfailed' = xfailed \cup {"spectral_flatness"}
          /\ UNCHANGED xfeat
    /\ UNCHANGED xf0
    /\ UNCHANGED ExtractFrame

\* lines 151-154: librosa.feature.rms and the silent-frame fraction, outside any try
SilenceRatio ==
    /\ mode = "extract" /\ xpc = "silence"
    /\ \/ \E v \in RatioValues \cup {0} :
          /\ xfeat' = Assign(xfeat, "silence_ratio", v)
          /\ xpc' = "return"
          /\ UNCHANGED xfailed
       \/ /\ xpc' = "raised"
          /\ xfailed' = xfailed \cup {"silence_ratio"}
          /\ UNCHANGED xfeat
    /\ UNCHANGED xf0
    /\ UNCHANGED ExtractFrame

\* lines 156-164: the dictionary is built from the locals and returned
ReturnFeatures ==
    /\ mode = "extract" /\ xpc = "return"
    /\ xpc' = "returned"
    /\ xfeat' = [n \in FeatureNames |-> xfeat[n]]
    /\ UNCHANGED <<xf0, xfailed>>
    /\ UNCHANGED ExtractFrame

NextExtract ==
    \/ preemphasis
    \/ PitchTracking
    \/ Jitter
    \/ Shimmer
    \/ Hnr
    \/ SpectralFlatness
    \/ SilenceRatio
    \/ ReturnFeatures

SpecExtract == InitExtract /\ [][NextExtract]_vars

(***************************************************************************)
(* C6: every feature operation of extract_features (pre-emphasis, F0       *)
(* tracking, jitter, shimmer, HNR, spectral flatness, silence ratio) is    *)
(* individually fault-tolerant: when one fails its field takes the safe    *)
(* default (0.0, or 10.0 for HNR), the remaining operations still run and  *)
(* extract_features returns a fully populated FeatureSet; it never raises. *)
(***************************************************************************)
C6_Default(op) == IF op = "hnr" THEN 100 ELSE 0

C6_FieldsOf(op) ==
    IF op = "pitch" THEN {"pitch_std", "pitch_mean"}
    ELSE IF op = "preemphasis" THEN {}
    ELSE {op}

C6_FaultTolerant ==
    mode = "extract" =>
        /\ xpc # "raised"
        /\ xpc = "returned" =>
              /\ DOMAIN xfeat = FeatureNames
              /\ \A op \in xfailed : \A n \in C6_FieldsOf(op) : xfeat[n] = C6_Default(op)

(***************************************************************************)
(* detect_voice, main.py lines 79-125: an async handler on the single      *)
(* event-loop thread.  loop = 0 when the event loop is free to run any     *)
(* ready coroutine; loop = r while the coroutine of request r executes     *)
(* synchronous code that takes time.  decode_audio runs on a worker thread *)
(* (run_in_threadpool) while the coroutine is suspended at the await.      *)
(* The limiter of line 78 admits 10 requests a minute for each address;    *)
(* the model stays below that.                                             *)
(***************************************************************************)
HTTP_OK == 200
HTTP_BAD_REQUEST == 400
HTTP_UNAUTHORIZED == 401
HTTP_SERVER_ERROR == 500

InitServer ==
    /\ mode = "server"
    /\ rpc = [r \in Requests |-> "idle"]
    /\ loop = 0
    /\ response = [r \in Requests |-> 0]
    /\ IdlePredict /\ IdleHnr /\ IdleExtract

ServerFrame == <<mode, features, result, autocorr, hnrOut, xpc, xf0, xfeat, xfailed>>

\* lines 84-95: the key check, then the await that hands decode_audio to a worker thread
Receive(r) ==
    /\ mode = "server" /\ loop = 0 /\ rpc[r] = "idle"
    /\ \/ \* x_api_key != API_KEY: lines 85-91
          /\ rpc' = [rpc EXCEPT ![r] = "done"]
          /\ response' = [response EXCEPT ![r] = HTTP_UNAUTHORIZED]
       \/ /\ rpc' = [rpc EXCEPT ![r] = "decoding"]
          /\ UNCHANGED response
    /\ UNCHANGED loop
    /\ UNCHANGED ServerFrame

\* utils.decode_audio on the worker thread: returns (y, sr) or raises ValueError
decode_audio(r) ==
    /\ mode = "server" /\ rpc[r] = "decoding"
    /\ \E outcome \in {"decoded", "decode_error"} : rpc' = [rpc EXCEPT ![r] = outcome]
    /\ UNCHANGED <<loop, response>>
    /\ UNCHANGED ServerFrame

\* the await of line 95 raises ValueError into the coroutine: lines 108-116
DecodeFailed(r) ==
    /\ mode = "server" /\ loop = 0 /\ rpc[r] = "decode_error"
    /\ rpc' = [rpc EXCEPT ![r] = "done"]
    /\ response' = [response EXCEPT ![r] = HTTP_BAD_REQUEST]
    /\ UNCHANGED loop
    /\ UNCHANGED ServerFrame

\* the await of line 95 returns and line 98 calls classifier.predict(y, sr)
\* directly: the call runs in the coroutine, on the event-loop thread
PredictCall(r) ==
    /\ mode = "server" /\ loop = 0 /\ rpc[r] = "decoded"
    /\ rpc' = [rpc EXCEPT ![r] = "predicting"]
    /\ loop' = r
    /\ UNCHANGED response
    /\ UNCHANGED ServerFrame

\* predict returns (lines 100-106) or raises (ValueError: lines 108-116, other: 117-125)
PredictReturn(r) ==
    /\ mode = "server" /\ loop = r /\ rpc[r] = "predicting"
    /\ rpc' = [rpc EXCEPT ![r] = "done"]
    /\ \E status \in {HTTP_OK, HTTP_BAD_REQUEST, HTTP_SERVER_ERROR} :
          response' = [response EXCEPT ![r] = status]
    /\ loop' = 0
    /\ UNCHANGED ServerFrame

NextServer ==
    \E r \in Requests :
        \/ Receive(r)
        \/ decode_audio(r)
        \/ DecodeFailed(r)
        \/ PredictCall(r)
        \/ PredictReturn(r)

SpecServer == InitServer /\ [][NextServer]_vars

(***************************************************************************)
(* C7: every engine invocation of detect_voice runs off the event loop, so *)
(* no reachable state has the event loop occupied by a running             *)
(* classification, and while one request is being classified another      *)
(* request can still make progress.                                        *)
(***************************************************************************)
C7_EventLoopSteps(q) == Receive(q) \/ DecodeFailed(q) \/ PredictCall(q)

C7_PredictOffEventLoop ==
    mode = "server" =>
        \A r \in Requests :
            rpc[r] = "predicting" =>
                /\ loop # r
                /\ \A q \in Requests \ {r} :
                      rpc[q] \in {"idle", "decode_error", "decoded"} => ENABLED C7_EventLoopSteps(q)

====
